---------------------------- MODULE Spec2Model ----------------------------
(***************************************************************************)
(* A model of the busy beaver explorer of src/src/main.rs: the generic     *)
(* combination generator, the machine enumerator Machines::generate with   *)
(* its halt filter, and the execution engine busy_beaver with Stats.       *)
(*                                                                         *)
(* Vectors are sequences.  The program's indices (ind, head, Card(i)) are  *)
(* kept 0-based as in the source; element i of a vector v is v[i + 1].     *)
(***************************************************************************)
EXTENDS Integers, Naturals, Sequences, FiniteSets, TLC

VARIABLES
    \* generate_combinations called on its own
    input, max_depth, input_holder, comb_res, comb_pc,
    \* Machines::generate
    num_cards, num_symbols, inst, all_cards, num_allocate, res, x, keep,
    machines, gen_pc,
    \* busy_beaver
    overflow_checks, cards, tape, head, stats, current_card, rounds, pc,
    \* main: the loop over the machines and the report
    results, machine_ind, best_score, best_score_holder, best_action,
    best_action_holder, printed, main_pc

comb_vars == <<input, max_depth, input_holder, comb_res, comb_pc>>
gen_vars  == <<num_cards, num_symbols, inst, all_cards, num_allocate, res,
               x, keep, machines, gen_pc>>
run_vars  == <<overflow_checks, cards, tape, head, stats, current_card,
               rounds, pc>>
main_vars == <<results, machine_ind, best_score, best_score_holder,
               best_action, best_action_holder, printed, main_pc>>
vars      == <<comb_vars, gen_vars, run_vars, main_vars>>

---------------------------------------------------------------------------
(* Bounds of the model.                                                    *)

\* largest pool handed to generate_combinations on its own
MaxP == 3
\* largest target length handed to generate_combinations on its own
MaxL == 4

\* (num_cards, num_symbols) pairs the enumerator is stepped through.  The
\* unfiltered table count is ((K*2*(N+1))^K)^N, so the pairs are listed
\* rather than taken from a rectangle: (2, 3) already has 34 million tables.
GenSizes == {<<1, 1>>, <<2, 1>>, <<1, 2>>, <<1, 3>>}

\* (num_cards, num_symbols) pairs whose generated tables are run
RunSizes == {<<1, 2>>, <<2, 2>>, <<1, 3>>}

Range(s) == {s[k] : k \in 1..Len(s)}

RECURSIVE Pow(_, _)
Pow(b, e) == IF e = 0 THEN 1 ELSE b * Pow(b, e - 1)

---------------------------------------------------------------------------
(* Transition model                                                        *)

Left  == "Left"
Right == "Right"

Halt    == <<"Halt">>
Card(i) == <<"Card", i>>

Instructions(write, direction, state) ==
    [write |-> write, direction |-> direction, state |-> state]

---------------------------------------------------------------------------
(* generate_combinations.  The holder and the result are passed by mutable *)
(* reference in the source; the operators return both as they are when the *)
(* call returns.                                                           *)

RECURSIVE generate_combinations(_, _, _, _, _, _)
RECURSIVE iterations(_, _, _, _, _, _, _)
RECURSIVE iterations_no_reset(_, _, _, _, _, _, _)
RECURSIVE iterations_descending(_, _, _, _, _, _, _)

iterations_no_reset(inp, depth, lo, hi, r, holder, out) ==
    IF hi - lo = 1
    THEN LET pushed == Append(holder, inp[lo + 1])
             inner  == IF r < depth - 1
                       THEN generate_combinations(inp, depth, lo, r + 1,
                                                  pushed, out)
                       ELSE [input_holder |-> pushed,
                             res          |-> Append(out, pushed)]
         IN  [input_holder |-> SubSeq(inner.input_holder, 1,
                                      Len(inner.input_holder) - 1),
              res          |-> inner.res]
    ELSE LET mid   == (lo + hi) \div 2
             first == iterations_no_reset(inp, depth, lo, mid, r, holder, out)
         IN  IF Len(first.res) >= 0
             THEN iterations_no_reset(inp, depth, mid, hi, r, first.input_holder,
                  first.res)
             ELSE first

iterations_descending(inp, depth, lo, hi, r, holder, out) ==
    IF hi - lo = 1
    THEN LET pushed == Append(holder, inp[lo + 1])
             inner  == IF r < depth - 1
                       THEN generate_combinations(inp, depth, 0, r + 1,
                                                  pushed, out)
                       ELSE [input_holder |-> pushed,
                             res          |-> Append(out, pushed)]
         IN  [input_holder |-> SubSeq(inner.input_holder, 1,
                                      Len(inner.input_holder) - 1),
              res          |-> inner.res]
    ELSE LET mid   == (lo + hi) \div 2
             first == iterations_descending(inp, depth, mid, hi, r, holder,
                                            out)
         IN  IF Len(first.res) >= 0
             THEN iterations_descending(inp, depth, lo, mid, r,
                                        first.input_holder, first.res)
             ELSE first

\* The iterations lo .. hi - 1 of the while loop, on the holder and result
\* they start from.  One iteration pushes input[ind], recurses at depth
\* r + 1 from index 0 or records a copy of the holder, and pops.  A longer
\* range runs its first half and then its second half on what the first
\* half left, which is the iterations in ascending order; halving keeps the
\* evaluation depth logarithmic in the pool size.  The test
\* Len(first.res) >= 0 is always true; it makes TLC finish the first half
\* before it starts the second.
iterations(inp, depth, lo, hi, r, holder, out) ==
    IF hi - lo = 1
    THEN LET pushed == Append(holder, inp[lo + 1])
             inner  == IF r < depth - 1
                       THEN generate_combinations(inp, depth, 0, r + 1,
                                                  pushed, out)
                       ELSE [input_holder |-> pushed,
                             res          |-> Append(out, pushed)]
         IN  [input_holder |-> SubSeq(inner.input_holder, 1,
                                      Len(inner.input_holder) - 1),
              res          |-> inner.res]
    ELSE LET mid   == (lo + hi) \div 2
             first == iterations(inp, depth, lo, mid, r, holder, out)
         IN  IF Len(first.res) >= 0
             THEN iterations(inp, depth, mid, hi, r, first.input_holder,
                  first.res)
             ELSE first

generate_combinations(inp, depth, ind, r, holder, out) ==
    IF ind < Len(inp)
    THEN iterations(inp, depth, ind, Len(inp), r, holder, out)
    ELSE [input_holder |-> holder, res |-> out]

---------------------------------------------------------------------------
(* Cards                                                                   *)

\* Cards::get_card: indexing past the last card panics
get_card_in_range(c, ind) == ind >= 0 /\ ind < Len(c)

\* Cards::get_states reads instructions 0 and 1 of every card; a card with
\* fewer than two instructions makes card.0[1] panic.
get_states(c) ==
    IF \E k \in 1..Len(c) : Len(c[k]) < 2
    THEN [panicked |-> TRUE, states |-> <<>>]
    ELSE [panicked |-> FALSE,
          states   |-> [k \in 1..(2 * Len(c)) |->
                           c[(k + 1) \div 2][2 - (k % 2)].state]]

contains_halt_state_negated(c) == Halt \notin Range(get_states(c).states)

contains_halt_state(c) == Halt \in Range(get_states(c).states)

---------------------------------------------------------------------------
(* Machines                                                                *)

generate_instructions_states_from_one(n, k) ==
    LET sym    == [j \in 1..k |-> j - 1]
        dir    == <<Left, Right>>
        states == <<Halt>> \o [j \in 1..n |-> Card(j)]
    IN  [q \in 1..(Len(states) * Len(dir) * Len(sym)) |->
            Instructions(sym[((q - 1) % k) + 1],
                         dir[(((q - 1) \div k) % 2) + 1],
                         states[((q - 1) \div (2 * k)) + 1])]

generate_instructions_no_halt(n, k) ==
    LET sym    == [j \in 1..k |-> j - 1]
        dir    == <<Left, Right>>
        states == [j \in 1..n |-> Card(j - 1)]
    IN  [q \in 1..(Len(states) * Len(dir) * Len(sym)) |->
            Instructions(sym[((q - 1) % k) + 1],
                         dir[(((q - 1) \div k) % 2) + 1],
                         states[((q - 1) \div (2 * k)) + 1])]

\* the three nested loops: states outermost, then directions, then symbols
generate_instructions(n, k) ==
    LET sym    == [j \in 1..k |-> j - 1]
        dir    == <<Left, Right>>
        states == <<Halt>> \o [j \in 1..n |-> Card(j - 1)]
    IN  [q \in 1..(Len(states) * Len(dir) * Len(sym)) |->
            Instructions(sym[((q - 1) % k) + 1],
                         dir[(((q - 1) \div k) % 2) + 1],
                         states[((q - 1) \div (2 * k)) + 1])]

generate_all_possible_cards(instructions, k) ==
    generate_combinations(instructions, k, 0, 0, <<>>, <<>>).res

\* the unfiltered tables, before .filter(contains_halt_state)
all_possible_machines(cs, n) ==
    generate_combinations(cs, n, 0, 0, <<>>, <<>>).res

\* the capacity computed at main.rs:160
NumAllocate(n, k) == Pow(k * 2 * (n + 1), n + k)

generate_all_possible_machines(cs, n, allocate) ==
    LET unfiltered == all_possible_machines(cs, n)
    IN  IF \E t \in Range(unfiltered) : get_states(t).panicked
        THEN [panicked |-> TRUE, machines |-> <<>>]
        ELSE [panicked |-> FALSE,
              machines |-> SelectSeq(unfiltered, contains_halt_state)]

\* Machines::generate as a function of its arguments
generate(n, k) ==
    generate_all_possible_machines(
        generate_all_possible_cards(generate_instructions(n, k), k),
        n, NumAllocate(n, k))

---------------------------------------------------------------------------
(* Values of the variables a specification does not use                    *)

CombIdle ==
    /\ input = <<>> /\ max_depth = 0 /\ input_holder = <<>>
    /\ comb_res = <<>> /\ comb_pc = "idle"

GenIdle ==
    /\ num_cards = 0 /\ num_symbols = 0 /\ inst = <<>> /\ all_cards = <<>>
    /\ num_allocate = 0 /\ res = <<>> /\ x = 0 /\ keep = "none"
    /\ machines = <<>> /\ gen_pc = "idle"

RunIdle ==
    /\ overflow_checks = FALSE /\ cards = <<>> /\ tape = <<>> /\ head = 0
    /\ stats = <<>> /\ current_card = 0 /\ rounds = 0 /\ pc = "idle"

MainIdle ==
    /\ results = <<>> /\ machine_ind = 0
    /\ best_score = 0 /\ best_score_holder = <<>>
    /\ best_action = 0 /\ best_action_holder = <<>>
    /\ printed = <<>> /\ main_pc = "idle"

---------------------------------------------------------------------------
(* generate_combinations on its own: a pool of P distinct items and a      *)
(* target length, called with ind = 0, r = 0, empty holder, empty result.  *)

Pools ==
    UNION {{p \in [1..n -> 1..MaxP] :
               \A a, b \in 1..n : a # b => p[a] # p[b]} : n \in 0..MaxP}

CombInit ==
    /\ input \in Pools
    /\ max_depth \in 1..MaxL
    /\ input_holder = <<>>
    /\ comb_res = <<>>
    /\ comb_pc = "call"
    /\ GenIdle /\ RunIdle /\ MainIdle

CallGenerateCombinations ==
    /\ comb_pc = "call"
    /\ LET out == generate_combinations(input, max_depth, 0, 0,
                                        input_holder, comb_res)
       IN  /\ input_holder' = out.input_holder
           /\ comb_res' = out.res
    /\ comb_pc' = "returned"
    /\ UNCHANGED <<input, max_depth, gen_vars, run_vars, main_vars>>

CombNext == CallGenerateCombinations

SpecComb == CombInit /\ [][CombNext]_vars

---------------------------------------------------------------------------
(* Machines::generate, one step per statement.  The closing                *)
(* .filter(|x| x.contains_halt_state()).collect() of main.rs:195 is the    *)
(* step FilterCollect; FilterElement is the filter's closure applied to    *)
(* one table x of the enumeration, whichever it is.                        *)

GenInit ==
    /\ \E size \in GenSizes : num_cards = size[1] /\ num_symbols = size[2]
    /\ inst = <<>> /\ all_cards = <<>> /\ num_allocate = 0
    /\ res = <<>> /\ x = 0 /\ keep = "none" /\ machines = <<>>
    /\ gen_pc = "generate_instructions"
    /\ CombIdle /\ RunIdle /\ MainIdle

GenerateInstructions ==
    /\ gen_pc = "generate_instructions"
    /\ inst' = generate_instructions(num_cards, num_symbols)
    /\ gen_pc' = "generate_all_possible_cards"
    /\ UNCHANGED <<num_cards, num_symbols, all_cards, num_allocate, res,
                   x, keep, machines, comb_vars, run_vars,
                   main_vars>>

GenerateAllPossibleCards ==
    /\ gen_pc = "generate_all_possible_cards"
    /\ all_cards' = generate_all_possible_cards(inst, num_symbols)
    /\ num_allocate' = NumAllocate(num_cards, num_symbols)
    /\ gen_pc' = "generate_all_possible_machines"
    /\ UNCHANGED <<num_cards, num_symbols, inst, res, x, keep, machines,
                   comb_vars, run_vars,
                   main_vars>>

GenerateAllPossibleMachines ==
    /\ gen_pc = "generate_all_possible_machines"
    /\ res' = all_possible_machines(all_cards, num_cards)
    /\ gen_pc' = "filter"
    /\ UNCHANGED <<num_cards, num_symbols, inst, all_cards, num_allocate,
                   x, keep, machines, comb_vars, run_vars,
                   main_vars>>

FilterElement ==
    /\ gen_pc = "filter"
    /\ \E ind \in 1..Len(res) :
           /\ x' = ind
           /\ keep' = IF get_states(res[ind]).panicked THEN "panicked"
                      ELSE IF contains_halt_state(res[ind]) THEN "kept"
                      ELSE "dropped"
    /\ gen_pc' = "filter_element"
    /\ UNCHANGED <<num_cards, num_symbols, inst, all_cards, num_allocate,
                   res, machines, comb_vars, run_vars,
                   main_vars>>

FilterCollect ==
    /\ gen_pc = "filter"
    /\ LET out == generate_all_possible_machines(all_cards, num_cards,
                                                 num_allocate)
       IN  /\ machines' = out.machines
           /\ gen_pc' = IF out.panicked THEN "panicked" ELSE "returned"
    /\ UNCHANGED <<num_cards, num_symbols, inst, all_cards, num_allocate,
                   res, x, keep, comb_vars, run_vars,
                   main_vars>>

GenNext ==
    \/ GenerateInstructions
    \/ GenerateAllPossibleCards
    \/ GenerateAllPossibleMachines
    \/ FilterElement
    \/ FilterCollect

SpecGen == GenInit /\ [][GenNext]_vars

---------------------------------------------------------------------------
(* usize arithmetic.  A usize value is written as the integer congruent to *)
(* it modulo 2^64 that lies in [-2^63, 2^63): usize::MAX is -1.  Sums and  *)
(* differences of these integers are then the wrapping sums and            *)
(* differences, `as i64` is the identity, and the unsigned order puts the  *)
(* negative integers above the others.  With overflow checks (a debug      *)
(* build) a - b panics when the true difference is below zero; without     *)
(* them (a release build) it wraps.                                        *)

UsizeGt(a, b) == IF (a < 0) = (b < 0) THEN a > b ELSE a < 0

SubOverflows(a, b) == a >= 0 /\ b >= 0 /\ a < b

---------------------------------------------------------------------------
(* Tape and Typewriter                                                     *)

extend_back_only(tp, hd) == [tape |-> tp \o <<0>>, head |-> hd]

\* Tape::extend: head one up, one zero in front, one zero at the end
extend(tp, hd) == [tape |-> <<0>> \o tp \o <<0>>, head |-> hd + 1]

\* indexing tape.0[self.head] panics outside the tape
head_in_range(hd, tp) == hd >= 0 /\ hd < Len(tp)

read(hd, tp) == tp[hd + 1]

write(sym, hd, tp) == [tp EXCEPT ![hd + 1] = sym]

\* Card::get_instruction: self.0[i] panics when the card has no entry i
get_instruction_in_range(card, hd, tp) ==
    head_in_range(hd, tp) /\ read(hd, tp) >= 0 /\ read(hd, tp) < Len(card)

get_instruction(card, hd, tp) == card[read(hd, tp) + 1]

\* Typewriter::move_head.  `self.head < 0` is never true of a usize, so
\* only the comparison with the last index decides the extension.
move_head(hd, dir, tp, checks) ==
    IF dir = Left /\ checks /\ SubOverflows(hd, 1)
    THEN [panicked |-> TRUE, tape |-> tp, head |-> hd]
    ELSE LET moved == IF dir = Left THEN hd - 1 ELSE hd + 1
         IN  IF UsizeGt(moved, Len(tp) - 1)
             THEN [panicked |-> FALSE] @@ extend(tp, moved)
             ELSE [panicked |-> FALSE, tape |-> tp, head |-> moved]

---------------------------------------------------------------------------
(* Stats.  The vector `tapes` is read by update and busy_beaver only       *)
(* through its length and its last element (the earlier snapshots are read *)
(* by show_state, the renderer), so it is kept as that pair:               *)
(* tapes.len is tapes.len() and tapes.last is the snapshot pushed last.    *)

Stats_init(c) ==
    [cards |-> c, action |-> 0, score |-> 0,
     tapes |-> [len |-> 0, last |-> <<>>], head_positions |-> <<>>]

update_nonzero(st, tp, hd, checks) ==
    IF checks /\ SubOverflows(hd, Len(tp) \div 2)
    THEN [panicked |-> TRUE, stats |-> st]
    ELSE [panicked |-> FALSE,
          stats |->
            [cards  |-> st.cards,
             score  |-> Cardinality({j \in 1..Len(tp) : tp[j] # 0}),
             tapes  |-> [len |-> st.tapes.len + 1, last |-> tp],
             action |-> (st.tapes.len + 1) - 1,
             head_positions |->
                 Append(st.head_positions, hd - (Len(tp) \div 2))]]

update_action_is_len(st, tp, hd, checks) ==
    IF checks /\ SubOverflows(hd, Len(tp) \div 2)
    THEN [panicked |-> TRUE, stats |-> st]
    ELSE [panicked |-> FALSE,
          stats |->
            [cards  |-> st.cards,
             score  |-> Cardinality({j \in 1..Len(tp) : tp[j] = 1}),
             tapes  |-> [len |-> st.tapes.len + 1, last |-> tp],
             action |-> st.tapes.len + 1,
             head_positions |->
                 Append(st.head_positions, hd - (Len(tp) \div 2))]]

update_absolute_head(st, tp, hd, checks) ==
    IF checks /\ SubOverflows(hd, Len(tp) \div 2)
    THEN [panicked |-> TRUE, stats |-> st]
    ELSE [panicked |-> FALSE,
          stats |->
            [cards  |-> st.cards,
             score  |-> Cardinality({j \in 1..Len(tp) : tp[j] = 1}),
             tapes  |-> [len |-> st.tapes.len + 1, last |-> tp],
             action |-> (st.tapes.len + 1) - 1,
             head_positions |-> Append(st.head_positions, hd)]]

\* Stats::update: score, push the tape, action, push the head position
update(st, tp, hd, checks) ==
    IF checks /\ SubOverflows(hd, Len(tp) \div 2)
    THEN [panicked |-> TRUE, stats |-> st]
    ELSE [panicked |-> FALSE,
          stats |->
            [cards  |-> st.cards,
             score  |-> Cardinality({j \in 1..Len(tp) : tp[j] = 1}),
             tapes  |-> [len |-> st.tapes.len + 1, last |-> tp],
             action |-> (st.tapes.len + 1) - 1,
             head_positions |->
                 Append(st.head_positions, hd - (Len(tp) \div 2))]]

---------------------------------------------------------------------------
(* busy_beaver                                                             *)

\* the step ceiling of main.rs:344
Ceiling == 100

over_ceiling_at(n) == n >= Ceiling

\* `if rounds > 100 { break }`
over_ceiling(n) == n > Ceiling

\* the table is one Machines::generate returned; overflow_checks tells a
\* build that checks integer overflow (debug) from one that wraps (release)
RunInit ==
    /\ overflow_checks \in BOOLEAN
    /\ \E size \in RunSizes :
           cards \in Range(generate(size[1], size[2]).machines)
    /\ tape = <<0>>
    /\ head = 0
    /\ stats = Stats_init(cards)
    /\ current_card = 0
    /\ rounds = 0
    /\ pc = "start"
    /\ CombIdle /\ GenIdle /\ MainIdle

\* main.rs:323-328, up to the loop
Start ==
    /\ pc = "start"
    /\ LET up == update(stats, tape, head, overflow_checks)
       IN  /\ stats' = up.stats
           /\ pc' = IF up.panicked THEN "panicked_update" ELSE "loop"
    /\ UNCHANGED <<overflow_checks, cards, tape, head, current_card, rounds,
                   comb_vars, gen_vars, main_vars>>

Step_state_first ==
    /\ pc = "loop"
    /\ IF ~get_instruction_in_range(cards[current_card + 1], head, tape)
       THEN /\ pc' = "panicked_get_instruction"
            /\ UNCHANGED <<tape, head, stats, current_card, rounds>>
       ELSE
       LET instr   == get_instruction(cards[current_card + 1], head, tape)
           written == write(instr.write, head, tape)
           mv      == move_head(head, instr.direction, written,
                                overflow_checks)
           up      == update(stats, mv.tape, mv.head, overflow_checks)
       IN  IF instr.state = Halt
           THEN /\ pc' = "returned_some"
                /\ UNCHANGED <<tape, head, stats, current_card, rounds>>
           ELSE IF mv.panicked
           THEN /\ pc' = "panicked_move_head"
                /\ tape' = written
                /\ UNCHANGED <<head, stats, current_card, rounds>>
           ELSE /\ tape' = mv.tape
                /\ head' = mv.head
                /\ IF up.panicked
                   THEN /\ pc' = "panicked_update"
                        /\ UNCHANGED <<stats, current_card, rounds>>
                   ELSE /\ stats' = up.stats
                        /\ IF ~get_card_in_range(cards, instr.state[2])
                           THEN /\ pc' = "panicked_get_card"
                                /\ UNCHANGED <<current_card, rounds>>
                           ELSE /\ current_card' = instr.state[2]
                                /\ rounds' = rounds + 1
                                /\ pc' = IF over_ceiling(rounds + 1)
                                         THEN "returned_none"
                                         ELSE "loop"
    /\ UNCHANGED <<overflow_checks, cards, comb_vars, gen_vars, main_vars>>

\* one iteration of the loop, main.rs:329-345: read, write, move, update,
\* then the match on the instruction's state and the ceiling test
Step ==
    /\ pc = "loop"
    /\ IF ~get_instruction_in_range(cards[current_card + 1], head, tape)
       THEN /\ pc' = "panicked_get_instruction"
            /\ UNCHANGED <<tape, head, stats, current_card, rounds>>
       ELSE
       LET instr   == get_instruction(cards[current_card + 1], head, tape)
           written == write(instr.write, head, tape)
           mv      == move_head(head, instr.direction, written,
                                overflow_checks)
           up      == update(stats, mv.tape, mv.head, overflow_checks)
       IN  IF mv.panicked
           THEN /\ pc' = "panicked_move_head"
                /\ tape' = written
                /\ UNCHANGED <<head, stats, current_card, rounds>>
           ELSE /\ tape' = mv.tape
                /\ head' = mv.head
                /\ IF up.panicked
                   THEN /\ pc' = "panicked_update"
                        /\ UNCHANGED <<stats, current_card, rounds>>
                   ELSE /\ stats' = up.stats
                        /\ IF instr.state = Halt
                           THEN /\ pc' = "returned_some"
                                /\ UNCHANGED <<current_card, rounds>>
                           ELSE IF ~get_card_in_range(cards, instr.state[2])
                           THEN /\ pc' = "panicked_get_card"
                                /\ UNCHANGED <<current_card, rounds>>
                           ELSE /\ current_card' = instr.state[2]
                                /\ rounds' = rounds + 1
                                /\ pc' = IF over_ceiling(rounds + 1)
                                         THEN "returned_none"
                                         ELSE "loop"
    /\ UNCHANGED <<overflow_checks, cards, comb_vars, gen_vars, main_vars>>

Next == Start \/ Step

Spec == RunInit /\ [][Next]_vars

---------------------------------------------------------------------------
(* main: the loop over the machines (main.rs:382-399) and the report       *)
(* (main.rs:401-404).  `results` holds, in enumeration order, what         *)
(* busy_beaver returns for each machine: None, or Some(stats).  Of the     *)
(* returned statistics the loop and the report read cards, score, action   *)
(* and (in show_state) the number of snapshots; the cards of machine i are *)
(* kept as the pair <<"machine", i>>, and the snapshots and head positions *)
(* themselves, which the loop and the println! do not read, are left out.  *)

MaxRuns == 3
MaxScore == 2
MaxAction == 2

\* Stats::default(): a one-row table that is no machine of the enumeration
Stats_default == Stats_init(<<<<Instructions(0, Left, Halt)>>>>)

None == [some |-> FALSE]

Some(st) == [some |-> TRUE, stats |-> st]

\* the statistics busy_beaver returns for machine i: at least one step has
\* been recorded, and there is one snapshot more than steps
ReturnedStats(i, score, action) ==
    [Stats_init(<<"machine", i>>) EXCEPT
        !.score = score, !.action = action, !.tapes.len = action + 1]

MainInit ==
    /\ \E len \in 1..MaxRuns :
           \E outcome \in [1..len -> {<<>>} \cup
                                      ((0..MaxScore) \X (1..MaxAction))] :
               results = [i \in 1..len |->
                             IF outcome[i] = <<>> THEN None
                             ELSE Some(ReturnedStats(i - 1, outcome[i][1],
                                                     outcome[i][2]))]
    /\ machine_ind = 0
    /\ best_score = 0
    /\ best_score_holder = Stats_default
    /\ best_action = 0
    /\ best_action_holder = Stats_default
    /\ printed = <<>>
    /\ main_pc = "loop"
    /\ CombIdle /\ GenIdle /\ RunIdle

\* one iteration of `for m in machines.iter()`, main.rs:387-399
LoopIteration ==
    /\ main_pc = "loop"
    /\ machine_ind < Len(results)
    /\ LET result == results[machine_ind + 1]
       IN  IF result.some
           THEN /\ IF result.stats.action > best_action
                   THEN /\ best_action_holder' = result.stats
                        /\ best_action' = result.stats.action
                   ELSE UNCHANGED <<best_action_holder, best_action>>
                /\ IF result.stats.score > best_score
                   THEN /\ best_score_holder' = result.stats
                        /\ best_score' = result.stats.score
                   ELSE UNCHANGED <<best_score_holder, best_score>>
           ELSE UNCHANGED <<best_action_holder, best_action,
                            best_score_holder, best_score>>
    /\ machine_ind' = machine_ind + 1
    /\ UNCHANGED <<results, printed, main_pc, comb_vars, gen_vars, run_vars>>

\* the println! of main.rs:401-403, after the last machine
Report ==
    /\ main_pc = "loop"
    /\ machine_ind = Len(results)
    /\ printed' = Append(printed, [score  |-> best_score_holder.score,
                                   action |-> best_score_holder.action,
                                   cards  |-> best_score_holder.cards])
    /\ main_pc' = "show_state"
    /\ UNCHANGED <<results, machine_ind, best_score, best_score_holder,
                   best_action, best_action_holder, comb_vars, gen_vars,
                   run_vars>>

\* best_score_holder.show_state(), main.rs:404: its first statement,
\* self.tapes[self.tapes.len()-1] (main.rs:251), panics when there is no
\* snapshot, by the subtraction or by the index
ShowState ==
    /\ main_pc = "show_state"
    /\ main_pc' = IF best_score_holder.tapes.len = 0
                  THEN "panicked_show_state"
                  ELSE "returned"
    /\ UNCHANGED <<results, machine_ind, best_score, best_score_holder,
                   best_action, best_action_holder, printed, comb_vars,
                   gen_vars, run_vars>>

MainNext == LoopIteration \/ Report \/ ShowState

SpecMain == MainInit /\ [][MainNext]_vars

---------------------------------------------------------------------------
(* Properties                                                              *)

\* some instruction of the table, in any row and at any place of the row,
\* has next state Halt
HasHaltInstruction(t) ==
    \E row \in 1..Len(t) : \E col \in 1..Len(t[row]) :
        t[row][col].state = Halt

\* C1: for N >= 1 and K >= 2, when Machines::generate returns, a table of
\* the enumeration is in the output if and only if at least one of its
\* N*K instructions has next state Halt, wherever in a row it sits.
C1_OutputIsAdmittedSet ==
    /\ (gen_pc = "returned" /\ num_symbols >= 2) =>
           Range(machines) = {t \in Range(res) : HasHaltInstruction(t)}
    /\ (gen_pc = "filter_element" /\ num_symbols >= 2) =>
           (keep = "kept" <=> HasHaltInstruction(res[x]))

\* C2: every table in the output of Machines::generate has at least one
\* instruction whose next state is Halt; a table all of whose instructions
\* point to Card(0) is never in the output.
C2_OutputTablesContainHalt ==
    /\ \A m \in 1..Len(machines) :
           /\ HasHaltInstruction(machines[m])
           /\ ~(\A row \in 1..Len(machines[m]) :
                   \A col \in 1..Len(machines[m][row]) :
                       machines[m][row][col].state = Card(0))
    /\ (gen_pc = "filter_element" /\ keep = "kept") =>
           HasHaltInstruction(res[x])

C2_Witness ==
    /\ gen_pc = "returned"
    /\ num_symbols = 3
    /\ Len(machines) > 0
    /\ Len(machines) < Len(res)

\* C8: before the halt filter the instruction alphabet has K*2*(N+1)
\* entries, the row set has (K*2*(N+1))^K rows of length K, and the
\* enumeration has ((K*2*(N+1))^K)^N tables of exactly N rows each.
C8_UnfilteredCounts ==
    LET alphabet == num_symbols * 2 * (num_cards + 1)
        rows     == Pow(alphabet, num_symbols)
    IN  /\ gen_pc \in {"generate_all_possible_cards",
                       "generate_all_possible_machines", "filter",
                       "filter_element", "returned", "panicked"}
            => Len(inst) = alphabet
        /\ gen_pc \in {"generate_all_possible_machines", "filter",
                       "filter_element", "returned", "panicked"}
            => /\ Len(all_cards) = rows
               /\ \A c \in 1..Len(all_cards) :
                      Len(all_cards[c]) = num_symbols
        /\ gen_pc \in {"filter", "filter_element", "returned", "panicked"}
            => /\ Len(res) = Pow(rows, num_cards)
               /\ \A t \in 1..Len(res) : Len(res[t]) = num_cards

C8_Witness ==
    /\ gen_pc = "filter"
    /\ num_cards = 1
    /\ num_symbols = 3
    /\ Len(inst) = 12
    /\ Len(res) = 1728

\* C9: for a pool of P distinct items and a length L >= 1,
\* generate_combinations called with ind = 0, r = 0, an empty holder and
\* an empty result produces exactly P^L sequences, each of length L with
\* all elements from the pool, none of them twice; for P = 0 it produces
\* none.
C9_AllSequencesOnce ==
    comb_pc = "returned" =>
        /\ Len(comb_res) = Pow(Len(input), max_depth)
        /\ \A s \in 1..Len(comb_res) :
               /\ Len(comb_res[s]) = max_depth
               /\ Range(comb_res[s]) \subseteq Range(input)
        /\ \A s, t \in 1..Len(comb_res) :
               s # t => comb_res[s] # comb_res[t]
        /\ Len(input) = 0 => comb_res = <<>>

C9_Witness ==
    /\ comb_pc = "returned"
    /\ Len(input) = 3
    /\ max_depth = 3
    /\ Len(comb_res) = 27

\* C3: for every run of busy_beaver that returns statistics, action is the
\* number of recorded snapshots minus 1, and score is the number of cells
\* equal to 1 (not any other nonzero symbol) in the last recorded snapshot.
C3_ActionAndScoreOfReturnedStats ==
    pc = "returned_some" =>
        /\ stats.action = stats.tapes.len - 1
        /\ stats.tapes.len = Len(stats.head_positions)
        /\ stats.tapes.last = tape
        /\ stats.score =
               Cardinality({j \in 1..Len(stats.tapes.last) :
                               stats.tapes.last[j] = 1})

C3_Witness ==
    /\ pc = "returned_some"
    /\ Len(cards[1]) = 3
    /\ \E j \in 1..Len(stats.tapes.last) : stats.tapes.last[j] = 2
    /\ stats.score = 0
    /\ stats.action = 1

\* C4: a run abandoned by the step ceiling returns no statistics and has
\* executed exactly Ceiling + 1 = 101 steps (one snapshot each, after the
\* initial snapshot) when it stops.
C4_AbandonedAfter101Steps ==
    pc = "returned_none" =>
        /\ rounds = Ceiling + 1
        /\ stats.tapes.len = Ceiling + 2
        /\ Len(stats.head_positions) = Ceiling + 2

C4_Witness ==
    /\ pc = "returned_none"
    /\ Len(cards) = 2
    /\ rounds = 101

\* C5: every head move succeeds: no move_head call fails, also for a Left
\* move from index 0 and a Right move from the last index, and after it
\* 0 <= head < tape length.
C5_EveryHeadMoveSucceeds ==
    /\ pc # "panicked_move_head"
    /\ pc \in {"loop", "returned_some", "returned_none"}
           => (0 <= head /\ head < Len(tape))

\* C6: in every reachable state of the run of a generated table each tape
\* cell holds a value in [0, K), the current state index is in [0, N), and
\* the lookup row[current state][symbol under head] is in range and never
\* fails.
C6_LookupAlwaysInRange ==
    /\ pc \notin {"panicked_get_instruction", "panicked_get_card"}
    /\ \A j \in 1..Len(tape) : tape[j] \in 0..(Len(cards[1]) - 1)
    /\ current_card \in 0..(Len(cards) - 1)
    /\ pc = "loop" =>
           /\ 0 <= head /\ head < Len(tape)
           /\ tape[head + 1] < Len(cards[current_card + 1])

C6_Witness ==
    /\ pc = "loop"
    /\ rounds > 1
    /\ Len(cards) = 2
    /\ current_card = 1
    /\ tape[head + 1] = 1

\* the instruction the next step executes
CurrentInstruction == cards[current_card + 1][tape[head + 1] + 1]

\* C7 as stated: when a head move leaves the materialized tape, the tape
\* is extended by exactly one zero cell at the edge the head moved past:
\* the length grows by 1, the opposite edge gets no new cell, and every
\* existing cell keeps its value.
C7_OneCellAtTheCrossedEdge ==
    [][(pc = "loop" /\ Len(tape') # Len(tape)) =>
          LET written == [tape EXCEPT ![head + 1] = CurrentInstruction.write]
          IN  /\ Len(tape') = Len(tape) + 1
              /\ CurrentInstruction.direction = Right
                     => tape' = written \o <<0>>
              /\ CurrentInstruction.direction = Left
                     => tape' = <<0>> \o written]_vars

\* C7 amended: when a head move leaves the materialized tape and the tape
\* is extended, it gets one zero cell at each edge: the length grows by 2,
\* the first and the last cell are zero, and every existing cell keeps its
\* value, one index higher (the cell under the head holding the symbol
\* just written).
C7_OneCellAtEachEdge ==
    [][(pc = "loop" /\ Len(tape') # Len(tape)) =>
          /\ Len(tape') = Len(tape) + 2
          /\ tape'[1] = 0
          /\ tape'[Len(tape')] = 0
          /\ \A j \in 1..Len(tape) :
                 tape'[j + 1] = IF j = head + 1
                                THEN CurrentInstruction.write
                                ELSE tape[j]]_vars

C7_Witness ==
    /\ pc = "loop"
    /\ rounds = 2
    /\ Len(tape) = 5
    /\ tape[2] # 0
    /\ tape[3] # 0

\* the table of the scenario: state0 = [(1, Right, Halt), (0, Right, Card(0))]
ScenarioTable ==
    <<<<Instructions(1, Right, Halt), Instructions(0, Right, Card(0))>>>>

ScenarioTableGenerated == ScenarioTable \in Range(generate(1, 2).machines)

\* C10: Machines::generate(1, 2) contains the table
\* state0 = [(write 1, Right, Halt), (write 0, Right, Card(0))], and
\* busy_beaver on it returns statistics with action 1 and score 1.
C10_ScenarioHaltsAfterOneStep ==
    /\ ScenarioTableGenerated
    /\ (cards = ScenarioTable /\ pc \notin {"start", "loop"}) =>
           /\ pc = "returned_some"
           /\ stats.action = 1
           /\ stats.score = 1

C10_Witness ==
    /\ cards = ScenarioTable
    /\ pc = "returned_some"
    /\ stats.action = 1

\* C13: Machines::generate never fails at the table level: for every
\* N >= 1 and K >= 1, K = 1 included, the enumeration and the halt filter
\* complete without an out-of-range access to a row's instructions.
C13_GenerateNeverFails ==
    /\ gen_pc # "panicked"
    /\ gen_pc = "filter_element" => keep # "panicked"

\* C20: the capacity Machines::generate reserves for the table collection
\* (num_allocate) is the number of unfiltered tables, ((K*2*(N+1))^K)^N.
C20_CapacityIsTableCount ==
    gen_pc \in {"generate_all_possible_machines", "filter",
                "filter_element", "returned", "panicked"} =>
        /\ num_allocate =
               Pow(Pow(num_symbols * 2 * (num_cards + 1), num_symbols),
                   num_cards)
        /\ gen_pc # "generate_all_possible_machines"
               => num_allocate = Len(res)

\* C17: generate_combinations emits its results in ascending lexicographic
\* order of pool indices: for pool size P and length L >= 1, result i
\* (0-based) is the sequence whose pool indices are the L base-P digits of
\* i, most significant first; the input pool is unchanged and the holder
\* is empty again on return.
C17_MixedRadixOrder ==
    [][comb_pc' = "returned" =>
          /\ input' = input
          /\ Len(comb_res') = Pow(Len(input), max_depth)
          /\ \A i \in 0..(Len(comb_res') - 1) :
                 /\ Len(comb_res'[i + 1]) = max_depth
                 /\ \A d \in 1..max_depth :
                        comb_res'[i + 1][d] =
                            input[((i \div Pow(Len(input), max_depth - d))
                                   % Len(input)) + 1]
          /\ input_holder' = <<>>]_vars

C17_Witness ==
    /\ comb_pc = "returned"
    /\ input = <<2, 3, 1>>
    /\ max_depth = 3
    /\ comb_res[6] = <<2, 3, 1>>
    /\ input_holder = <<>>


\* C19: in every run of busy_beaver no usize arithmetic goes below zero:
\* move_head never evaluates head - 1 with head = 0, and Stats::update
\* never evaluates head - (tape length / 2) with head < tape length / 2.
C19_NoUsizeUnderflow ==
    /\ pc \notin {"panicked_move_head", "panicked_update"}
    /\ pc = "loop" => ~(CurrentInstruction.direction = Left /\ head = 0)
    /\ pc \in {"loop", "returned_some", "returned_none"}
           => head >= Len(tape) \div 2

\* C14: for every table a run of busy_beaver ends in one of the two
\* outcomes Halted (statistics returned) or Abandoned (none returned),
\* after at most Ceiling + 1 = 101 loop iterations; it ends in no other
\* way.
C14_RunEndsHaltedOrAbandoned ==
    /\ pc \in {"start", "loop", "returned_some", "returned_none"}
    /\ pc = "loop" => rounds <= Ceiling
    /\ pc \in {"returned_some", "returned_none"}
           => stats.tapes.len - 1 <= Ceiling + 1

\* C18: busy_beaver returns statistics exactly when the machine, started
\* in state 0 on one zero cell, takes a transition to Halt at one of its
\* first 101 steps, and returns None otherwise; returned statistics have
\* 1 <= action <= 101.
C18_SomeIffHaltTransition ==
    [][pc = "loop" =>
          /\ (CurrentInstruction.state = Halt) <=> (pc' = "returned_some")
          /\ CurrentInstruction.state # Halt
                 => /\ pc' \in {"loop", "returned_none"}
                    /\ (pc' = "returned_none") <=> (rounds' = Ceiling + 1)
          /\ pc' = "returned_some"
                 => (1 <= stats'.action /\ stats'.action <= Ceiling + 1)]_vars

\* C15: every recorded head position is the head's signed offset from the
\* cell the run started on: the first recorded position is 0, each later
\* one is its predecessor + 1 after a Right move and its predecessor - 1
\* after a Left move, whether or not the tape was extended on that step,
\* and the positions recorded earlier are left as they were.
C15_HeadPositionsAreOffsets ==
    [][/\ (pc = "start" /\ pc' = "loop") => stats'.head_positions = <<0>>
       /\ (pc = "loop"
             /\ Len(stats'.head_positions) # Len(stats.head_positions)) =>
             LET n == Len(stats.head_positions)
             IN  /\ Len(stats'.head_positions) = n + 1
                 /\ SubSeq(stats'.head_positions, 1, n) = stats.head_positions
                 /\ stats'.head_positions[n + 1] =
                        stats.head_positions[n]
                          + (IF CurrentInstruction.direction = Right
                             THEN 1 ELSE -1)
                 /\ stats'.head_positions[n + 1] =
                        head' - ((Len(tape') - 1) \div 2)]_vars

C15_Witness ==
    /\ pc = "loop"
    /\ Len(tape) = 3
    /\ Len(stats.head_positions) = 4
    /\ stats.head_positions[2] = -1
    /\ stats.head_positions[3] = 0
    /\ stats.head_positions[4] = 1

\* C16: within every step of busy_beaver the order is read, write, move,
\* record snapshot, then evaluate the next state: the symbol written is the
\* one of the instruction read before the write, the snapshot recorded is
\* the tape after the write and the move, and on the step whose instruction
\* has next state Halt the write and the move are applied and the final
\* snapshot and the returned score reflect them.  A step that panics in the
\* move or in the recording stops there, with the earlier parts done and
\* the later ones not.
C16_WriteMoveRecordThenEvaluate ==
    [][pc = "loop" =>
          LET instr == CurrentInstruction
              shift == (Len(tape') - Len(tape)) \div 2
          IN  /\ tape'[head + 1 + shift] = instr.write
              /\ pc' = "panicked_move_head" =>
                     /\ head' = head
                     /\ stats' = stats /\ current_card' = current_card
              /\ pc' # "panicked_move_head" =>
                     head' - shift =
                         head + (IF instr.direction = Right THEN 1 ELSE -1)
              /\ pc' = "panicked_update" =>
                     stats' = stats /\ current_card' = current_card
              /\ pc' \in {"loop", "returned_some", "returned_none"} =>
                     /\ stats'.tapes.len = stats.tapes.len + 1
                     /\ stats'.tapes.last = tape'
                     /\ stats'.score =
                            Cardinality({j \in 1..Len(tape') : tape'[j] = 1})
                     /\ (instr.state = Halt) <=> (pc' = "returned_some")
                     /\ instr.state # Halt
                            => current_card' = instr.state[2]
              /\ pc' \in {"loop", "returned_some", "returned_none",
                           "panicked_move_head", "panicked_update"}]_vars

C16_Witness ==
    /\ pc = "returned_some"
    /\ Len(cards) = 2
    /\ stats.action = 6
    /\ stats.score = 4
    /\ stats.tapes.last = tape


\* the machines, by index into results, whose run returned statistics
Completed == {i \in 1..Len(results) : results[i].some}

\* the first completed run whose score is the maximum score
FirstBestScore ==
    CHOOSE i \in Completed :
        /\ \A j \in Completed :
               results[j].stats.score <= results[i].stats.score
        /\ \A j \in Completed :
               results[j].stats.score = results[i].stats.score => i <= j

\* the first completed run whose action is the maximum action
FirstBestAction ==
    CHOOSE i \in Completed :
        /\ \A j \in Completed :
               results[j].stats.action <= results[i].stats.action
        /\ \A j \in Completed :
               results[j].stats.action = results[i].stats.action => i <= j

\* C11: given a non-empty sequence of completed runs in enumeration order,
\* the best-score selection is the first run whose score is the maximum
\* score of the sequence, also when that maximum is 0, and the best-action
\* selection is the first run whose action is the maximum action, each
\* selected independently of the other.
C11_FirstOfTheMaximum ==
    (main_pc \in {"show_state", "returned", "panicked_show_state"}
        /\ Completed # {}) =>
        /\ best_score_holder = results[FirstBestScore].stats
        /\ best_action_holder = results[FirstBestAction].stats

\* C12: when no candidate run returns statistics, the selection ends in a
\* distinct absent-result outcome: the program does not fail, and it does
\* not report a placeholder table that was never enumerated or run.
C12_AbsentResultOutcome ==
    Completed = {} =>
        /\ main_pc # "panicked_show_state"
        /\ \A line \in Range(printed) :
               \E i \in 1..Len(results) : line.cards = <<"machine", i - 1>>

===========================================================================
